---- MODULE Spec2Model ----
(***************************************************************************)
(* Startup of the cryo command line front end (src/src/main.rs): the       *)
(* parsed Args, parse_opts step by step (datatypes, block chunks, provider,*)
(* network name, output directory, concurrency, schemas, sort, FreezeOpts),*)
(* then main's summary and its dry-run / freeze branch.                    *)
(*                                                                         *)
(* A Rust panic anywhere in parse_opts ends the process: pc = "panicked".  *)
(* The u64 arithmetic of parse_concurrency_args is modelled on an unsigned *)
(* word of WordBits bits (standing for 64): `/` by 0 panics, `*` beyond    *)
(* the word panics when the build has overflow checks (debug profile) and  *)
(* wraps when it has not (release profile); both builds are explored.      *)
(* block_utils, datatype_utils, types and freeze are modules of the        *)
(* repository outside main.rs; their operators follow the specification.   *)
(***************************************************************************)
EXTENDS Integers, Sequences, FiniteSets, TLC

\* ---------------------------------------------------------------- bounds
\* width in bits of the unsigned word standing for u64
WordBits == 8
\* concurrency options are drawn from 0..MaxArg and the largest word
MaxArg == 4
\* longest list of positional datatype tokens
MaxTokens == 2
\* chain ids the provider may answer: 0..MaxChainId
MaxChainId == 11

\* ---------------------------------------------------------------- values
None == [tag |-> "None"]
Some(v) == [tag |-> "Some", val |-> v]
IsSome(o) == o.tag = "Some"

\* the outcome of a Rust expression: a value, or a panic with its message
Ok(v) == [panic |-> FALSE, val |-> v]
Panic(m) == [panic |-> TRUE, msg |-> m]

Range(s) == {s[i] : i \in 1..Len(s)}
Max(a, b) == IF a >= b THEN a ELSE b

WordModulus == 2 ^ WordBits
U64_MAX == WordModulus - 1

\* u64 `/`: panics on a zero divisor in every build profile
u64_div(a, b) ==
  IF b = 0 THEN Panic("attempt to divide by zero") ELSE Ok(a \div b)

\* u64 `*`: panics on overflow with overflow checks, wraps without
u64_mul(a, b, checks) ==
  IF a * b <= U64_MAX THEN Ok(a * b)
  ELSE IF checks THEN Panic("attempt to multiply with overflow")
  ELSE Ok((a * b) % WordModulus)

\* ------------------------------------------------------------- datatypes
Datatype == {"Blocks", "Logs", "Transactions"}

\* parse_datatype with a catch-all arm that returns a datatype instead of panicking
parse_datatype_lenient(datatype) ==
  CASE datatype = "blocks" -> Ok("Blocks")
    [] datatype = "logs" -> Ok("Logs")
    [] datatype = "events" -> Ok("Logs")
    [] datatype = "transactions" -> Ok("Transactions")
    [] datatype = "txs" -> Ok("Transactions")
    [] OTHER -> Ok("Blocks")

parse_datatype(datatype) ==
  CASE datatype = "blocks" -> Ok("Blocks")
    [] datatype = "logs" -> Ok("Logs")
    [] datatype = "events" -> Ok("Logs")
    [] datatype = "transactions" -> Ok("Transactions")
    [] datatype = "txs" -> Ok("Transactions")
    [] OTHER -> Panic("invalid datatype")

\* args.datatype.iter().map(parse_datatype).collect(): the first bad token panics
parse_datatypes(tokens) ==
  IF \E i \in 1..Len(tokens) : parse_datatype(tokens[i]).panic
  THEN Panic("invalid datatype")
  ELSE Ok([i \in 1..Len(tokens) |-> parse_datatype(tokens[i]).val])

\* ---------------------------------------------------------- network name
Digits == <<"0", "1", "2", "3", "4", "5", "6", "7", "8", "9">>
Str_ethereum == <<"e", "t", "h", "e", "r", "e", "u", "m">>
Str_network_ == <<"n", "e", "t", "w", "o", "r", "k", "_">>

RECURSIVE u64_to_string(_)
u64_to_string(n) ==
  IF n < 10 THEN <<Digits[n + 1]>>
  ELSE Append(u64_to_string(n \div 10), Digits[(n % 10) + 1])

\* the match on the chain id without its arm for 1
network_name_of_chain_id_no_mainnet(chain_id) ==
  Str_network_ \o u64_to_string(chain_id)

\* the match on chain_id.as_u64()
network_name_of_chain_id(chain_id) ==
  IF chain_id = 1 THEN Str_ethereum
  ELSE Str_network_ \o u64_to_string(chain_id)

\* ----------------------------------------------------------- concurrency
\* the default pair with its components swapped
concurrency_none_swapped == <<3, 32>>

concurrency_none == <<32, 3>>

\* the only-requests arm without the clamp to 1
concurrency_requests_unclamped(R) == <<R \div 3, 3>>

concurrency_requests(R) == <<Max(R \div 3, 1), 3>>

concurrency_chunks(C) == <<C, 3>>

concurrency_blocks(B) ==
  LET q == u64_div(100, B)
  IN IF q.panic THEN q ELSE Ok(<<Max(q.val, 1), B>>)

\* the requests-and-chunks arm dividing upwards instead of downwards
concurrency_requests_chunks_rounded_up(R, C) ==
  LET q == u64_div(R + C - 1, C)
  IN IF q.panic THEN q ELSE Ok(<<C, Max(q.val, 1)>>)

concurrency_requests_chunks(R, C) ==
  LET q == u64_div(R, C)
  IN IF q.panic THEN q ELSE Ok(<<C, Max(q.val, 1)>>)

concurrency_chunks_blocks(C, B) == <<C, B>>

concurrency_requests_blocks(R, B) ==
  LET q == u64_div(R, B)
  IN IF q.panic THEN q ELSE Ok(<<Max(q.val, 1), B>>)

concurrency_all(R, C, B, checks) ==
  LET p == u64_mul(C, B, checks)
  IN IF p.panic THEN p
     ELSE IF R = p.val THEN Ok(<<C, B>>)
     ELSE Panic("max_concurrent_requests should equal max_concurrent_chunks * max_concurrent_blocks")

\* the pair it returns is (max_concurrent_chunks, max_concurrent_blocks)
parse_concurrency_args(a, checks) ==
  LET R == a.max_concurrent_requests
      C == a.max_concurrent_chunks
      B == a.max_concurrent_blocks
  IN CASE ~IsSome(R) /\ ~IsSome(C) /\ ~IsSome(B) -> Ok(concurrency_none)
       [] IsSome(R) /\ ~IsSome(C) /\ ~IsSome(B) -> Ok(concurrency_requests(R.val))
       [] ~IsSome(R) /\ IsSome(C) /\ ~IsSome(B) -> Ok(concurrency_chunks(C.val))
       [] ~IsSome(R) /\ ~IsSome(C) /\ IsSome(B) -> concurrency_blocks(B.val)
       [] IsSome(R) /\ IsSome(C) /\ ~IsSome(B) -> concurrency_requests_chunks(R.val, C.val)
       [] ~IsSome(R) /\ IsSome(C) /\ IsSome(B) -> Ok(concurrency_chunks_blocks(C.val, B.val))
       [] IsSome(R) /\ ~IsSome(C) /\ IsSome(B) -> concurrency_requests_blocks(R.val, B.val)
       [] IsSome(R) /\ IsSome(C) /\ IsSome(B) -> concurrency_all(R.val, C.val, B.val, checks)

\* ------------------------------------------------------ block-range plan
\* block_utils::parse_block_inputs: a token A:B is the pair <<A, B>> (a single
\* block N is <<N, N>>); the union interval of the tokens, rejecting A > B
parse_block_inputs(blocks) ==
  IF blocks = <<>> \/ \E i \in 1..Len(blocks) : blocks[i][1] > blocks[i][2]
  THEN Panic("invalid block range")
  ELSE LET lo == CHOOSE x \in {blocks[i][1] : i \in 1..Len(blocks)} :
                   \A i \in 1..Len(blocks) : x <= blocks[i][1]
           hi == CHOOSE x \in {blocks[i][2] : i \in 1..Len(blocks)} :
                   \A i \in 1..Len(blocks) : x >= blocks[i][2]
       IN Ok(<<lo, hi>>)

\* block_utils::get_subchunks: [start, start+W-1], [start+W, start+2W-1], ...
\* with the last chunk cut at the end of the range
RECURSIVE subchunks_from(_, _, _)
subchunks_from(start, end, W) ==
  IF start + W - 1 >= end THEN <<(<<start, end>>)>>
  ELSE <<(<<start, start + W - 1>>)>> \o subchunks_from(start + W, end, W)

get_subchunks(block_chunk, chunk_size) ==
  IF chunk_size = 0 THEN Panic("chunk size must be positive")
  ELSE Ok(subchunks_from(block_chunk[1], block_chunk[2], chunk_size))

\* --------------------------------------------------------------- schemas
\* the canonical columns of each datatype, bytes columns typed by the encoding
full_schema(datatype, enc) ==
  CASE datatype = "Blocks" ->
         << <<"block_number", "u64">>, <<"block_hash", enc>>,
            <<"parent_hash", enc>>, <<"timestamp", "u32">>, <<"author", enc>>,
            <<"gas_used", "u64">>, <<"extra_data", enc>>,
            <<"base_fee_per_gas", "u64">>, <<"size", "u64">>,
            <<"transaction_count", "u32">>, <<"logs_bloom", enc>> >>
    [] datatype = "Transactions" ->
         << <<"block_number", "u64">>, <<"transaction_index", "u32">>,
            <<"transaction_hash", enc>>, <<"nonce", "u64">>,
            <<"from_address", enc>>, <<"to_address", enc>>,
            <<"value", "u256">>, <<"input", enc>>, <<"gas_limit", "u64">>,
            <<"gas_price", "u64">>, <<"transaction_type", "u8">>,
            <<"max_priority_fee_per_gas", "u64">>,
            <<"max_fee_per_gas", "u64">>, <<"chain_id", "u64">> >>
    [] datatype = "Logs" ->
         << <<"block_number", "u64">>, <<"block_hash", enc>>,
            <<"transaction_hash", enc>>, <<"transaction_index", "u32">>,
            <<"log_index", "u32">>, <<"address", enc>>, <<"topic0", enc>>,
            <<"topic1", enc>>, <<"topic2", enc>>, <<"topic3", enc>>,
            <<"data", enc>> >>

column_names(schema) == {schema[i][1] : i \in 1..Len(schema)}

\* datatype_utils::get_schema: drop the excluded names, keep the included ones,
\* in canonical order; an unknown name or an empty result is an error
get_schema(datatype, enc, include_columns, exclude_columns) ==
  LET full == full_schema(datatype, enc)
      named == (IF IsSome(include_columns) THEN Range(include_columns.val) ELSE {})
               \cup (IF IsSome(exclude_columns) THEN Range(exclude_columns.val) ELSE {})
      keep(col) ==
        /\ ~(IsSome(exclude_columns) /\ col[1] \in Range(exclude_columns.val))
        /\ (IsSome(include_columns) => col[1] \in Range(include_columns.val))
      schema == SelectSeq(full, keep)
  IN IF ~(named \subseteq column_names(full)) THEN Panic("unknown column")
     ELSE IF schema = <<>> THEN Panic("empty schema")
     ELSE Ok(schema)

\* HashMap::from_iter over the datatypes: one entry per distinct datatype
build_schemas(dts, enc, include_columns, exclude_columns) ==
  IF \E d \in Range(dts) : get_schema(d, enc, include_columns, exclude_columns).panic
  THEN Panic("schema error")
  ELSE Ok([d \in Range(dts) |-> get_schema(d, enc, include_columns, exclude_columns).val])

\* Datatype::default_sort
default_sort(datatype) ==
  CASE datatype = "Blocks" -> <<"block_number">>
    [] datatype = "Transactions" -> <<"block_number", "transaction_index">>
    [] datatype = "Logs" -> <<"block_number", "log_index">>

parse_sort(raw_sort, schemas_) ==
  IF Len(raw_sort) = 0
  THEN Ok([d \in DOMAIN schemas_ |-> default_sort(d)])
  ELSE IF Cardinality(DOMAIN schemas_) > 1
  THEN Panic("custom sort not supported for multiple schemas")
  ELSE LET datatype == CHOOSE d \in DOMAIN schemas_ : TRUE
       IN Ok([d \in {datatype} |-> raw_sort])

\* Provider::<Http>::try_from(url): the URLs that parse
url_parses(rpc) == rpc \in {"http://34.105.67.70:8545", "http://localhost:8545"}

output_format_of(csv) == IF csv THEN "Csv" ELSE "Parquet"
binary_column_format_of(hex) == IF hex THEN "Hex" ELSE "Binary"

\* ------------------------------------------------------------------ state
VARIABLES
  args,               \* the Args value clap parsed
  overflow_checks,    \* build profile: arithmetic overflow panics (debug) or wraps
  pc,                 \* position in main / parse_opts
  datatypes,          \* parse_opts: Vec<Datatype>
  block_chunks,       \* parse_opts: the chunk list
  chain_id,           \* parse_opts: the chain id eth_chainId answered, None before
  network_name,       \* parse_opts: the network name, a string of characters
  output_dir_created, \* fs::create_dir_all has succeeded
  max_concurrent,     \* parse_opts: <<max_concurrent_chunks, max_concurrent_blocks>>
  schemas,            \* parse_opts: HashMap<Datatype, Schema>
  sort,               \* parse_opts: HashMap<Datatype, Vec<String>>
  opts,               \* the FreezeOpts parse_opts returned, None before
  rpc_calls,          \* every RPC method called so far, in order
  stdout,             \* the lines main has printed
  freeze_started,     \* freeze::freeze has been called
  next_chunk,         \* freeze: index of the next chunk to run
  chunk_failed,       \* freeze: some chunk ended in an error
  files_written,      \* freeze: the <<datatype, chunk>> files on disk
  panic_message       \* the message of the panic that ended the process

vars ==
  <<args, overflow_checks, pc, datatypes, block_chunks, chain_id, network_name,
    output_dir_created, max_concurrent, schemas, sort, opts, rpc_calls, stdout,
    freeze_started, next_chunk, chunk_failed, files_written, panic_message>>

\* ----------------------------------------------------------------- inputs
Tokens == {"blocks", "logs", "events", "transactions", "txs", "block"}
TokenSeqs == UNION {[1..n -> Tokens] : n \in 1..MaxTokens}

ArgValues == (0..MaxArg) \cup {U64_MAX}
ConcurrencyOptions == {None} \cup {Some(v) : v \in ArgValues}

NetworkNames == {None, Some(<<>>), Some(<<"g", "n", "o", "s", "i", "s">>)}

\* clap's defaults for every option (Args, default_value attributes)
DefaultArgs ==
  [datatype |-> <<"blocks">>,
   blocks |-> <<(<<17000000, 17000100>>)>>,
   rpc |-> "http://34.105.67.70:8545",
   network_name |-> None,
   chunk_size |-> 1000,
   output_dir |-> ".",
   csv |-> FALSE,
   hex |-> FALSE,
   sort |-> <<>>,
   row_groups |-> None,
   row_group_size |-> None,
   no_stats |-> FALSE,
   include_columns |-> None,
   exclude_columns |-> None,
   max_concurrent_requests |-> None,
   max_concurrent_chunks |-> None,
   max_concurrent_blocks |-> None,
   log_request_size |-> 1,
   dry |-> FALSE]

\* command lines that vary the datatype tokens, the network name and --dry
InputsDatatypes ==
  {[DefaultArgs EXCEPT !.datatype = dt, !.network_name = nn, !.dry = d] :
     dt \in TokenSeqs, nn \in NetworkNames, d \in BOOLEAN}

\* command lines that vary the RPC URL, the block range, the chunk size,
\* --log-request-size, --dry and --csv
InputsPlan ==
  {[DefaultArgs EXCEPT !.rpc = r, !.blocks = b, !.chunk_size = cs,
                       !.log_request_size = l, !.dry = d, !.csv = c] :
     r \in {"http://localhost:8545", "not a url"},
     b \in {<<(<<17000000, 17000100>>)>>, <<(<<17000100, 17000000>>)>>},
     cs \in {0, 50, 1000},
     l \in {0, 1, 2},
     d \in BOOLEAN,
     c \in BOOLEAN}

\* command lines that vary the three concurrency options and --dry
InputsConcurrency ==
  {[DefaultArgs EXCEPT !.max_concurrent_requests = R, !.max_concurrent_chunks = C,
                       !.max_concurrent_blocks = B, !.dry = d] :
     R \in ConcurrencyOptions, C \in ConcurrencyOptions,
     B \in ConcurrencyOptions, d \in BOOLEAN}

\* command lines that vary the datatypes, --sort, the column lists and --hex
InputsSort ==
  {[DefaultArgs EXCEPT !.datatype = dt, !.sort = s, !.include_columns = i,
                       !.exclude_columns = e, !.hex = h] :
     dt \in {<<"blocks">>, <<"events">>, <<"txs">>, <<"blocks", "logs">>,
             <<"logs", "events">>},
     s \in {<<>>, <<"block_number">>, <<"timestamp">>, <<"number">>},
     i \in {None, Some(<<>>), Some(<<"timestamp", "block_number">>)},
     e \in {None, Some(<<"block_number">>), Some(<<"gas_used">>)},
     h \in BOOLEAN}

Init ==
  /\ \/ args \in InputsDatatypes \cup InputsPlan \cup InputsSort /\ overflow_checks = FALSE
     \/ args \in InputsConcurrency /\ overflow_checks \in BOOLEAN
  /\ pc = "parse_datatypes"
  /\ datatypes = <<>>
  /\ block_chunks = <<>>
  /\ chain_id = None
  /\ network_name = <<>>
  /\ output_dir_created = FALSE
  /\ max_concurrent = <<0, 0>>
  /\ schemas = [d \in {} |-> <<>>]
  /\ sort = [d \in {} |-> <<>>]
  /\ opts = None
  /\ rpc_calls = <<>>
  /\ stdout = <<>>
  /\ freeze_started = FALSE
  /\ next_chunk = 1
  /\ chunk_failed = FALSE
  /\ files_written = {}
  /\ panic_message = ""

\* ---------------------------------------------------------------- actions
\* what the provider can answer to eth_chainId
ChainIdResponses == {None} \cup {Some(n) : n \in 0..MaxChainId}

\* the RPC method a datatype's gatherer calls
rpc_method(datatype) ==
  IF datatype = "Logs" THEN "eth_getLogs" ELSE "eth_getBlockByNumber"

\* parse_opts: args.datatype -> Vec<Datatype>
ParseDatatypes ==
  /\ pc = "parse_datatypes"
  /\ LET r == parse_datatypes(args.datatype)
     IN IF r.panic
        THEN /\ pc' = "panicked"
             /\ panic_message' = r.msg
             /\ UNCHANGED datatypes
        ELSE /\ pc' = "parse_blocks"
             /\ datatypes' = r.val
             /\ UNCHANGED panic_message
  /\ UNCHANGED <<args, overflow_checks, chain_id, block_chunks, network_name,
                 output_dir_created, max_concurrent, schemas, sort, opts,
                 rpc_calls, stdout, freeze_started, next_chunk, chunk_failed,
                 files_written>>

\* parse_opts: parse_block_inputs(..).unwrap() and get_subchunks
ParseBlocks ==
  /\ pc = "parse_blocks"
  /\ LET block_chunk == parse_block_inputs(args.blocks)
         r == IF block_chunk.panic THEN block_chunk
              ELSE get_subchunks(block_chunk.val, args.chunk_size)
     IN IF r.panic
        THEN /\ pc' = "panicked"
             /\ panic_message' = r.msg
             /\ UNCHANGED block_chunks
        ELSE /\ pc' = "provider"
             /\ block_chunks' = r.val
             /\ UNCHANGED panic_message
  /\ UNCHANGED <<args, overflow_checks, chain_id, datatypes, network_name,
                 output_dir_created, max_concurrent, schemas, sort, opts,
                 rpc_calls, stdout, freeze_started, next_chunk, chunk_failed,
                 files_written>>

\* parse_opts: Provider::<Http>::try_from(args.rpc.clone()).unwrap()
MakeProvider ==
  /\ pc = "provider"
  /\ IF url_parses(args.rpc)
     THEN pc' = "network_name" /\ UNCHANGED panic_message
     ELSE pc' = "panicked" /\ panic_message' = "invalid rpc url"
  /\ UNCHANGED <<args, overflow_checks, chain_id, datatypes, block_chunks, network_name,
                 output_dir_created, max_concurrent, schemas, sort, opts,
                 rpc_calls, stdout, freeze_started, next_chunk, chunk_failed,
                 files_written>>

\* parse_opts: the match on &args.network_name; with None it sends eth_chainId
\* and suspends at the .await
NetworkName ==
  /\ pc = "network_name"
  /\ IF IsSome(args.network_name)
     THEN /\ network_name' = args.network_name.val
          /\ pc' = "create_dir"
          /\ UNCHANGED rpc_calls
     ELSE /\ rpc_calls' = Append(rpc_calls, "eth_chainId")
          /\ pc' = "await_chainid"
          /\ UNCHANGED network_name
  /\ UNCHANGED <<args, overflow_checks, chain_id, datatypes, block_chunks,
                 output_dir_created, max_concurrent, schemas, sort, opts, stdout,
                 freeze_started, next_chunk, chunk_failed, files_written,
                 panic_message>>

\* parse_opts: provider.get_chainid().await resumes with Ok(chain_id) or an error
ChainIdResponse ==
  /\ pc = "await_chainid"
  /\ \E resp \in ChainIdResponses :
       IF IsSome(resp)
       THEN /\ chain_id' = resp
            /\ network_name' = network_name_of_chain_id(resp.val)
            /\ pc' = "create_dir"
            /\ UNCHANGED panic_message
       ELSE /\ pc' = "panicked"
            /\ panic_message' = "could not determine chain_id"
            /\ UNCHANGED <<chain_id, network_name>>
  /\ UNCHANGED <<args, overflow_checks, datatypes, block_chunks,
                 output_dir_created, max_concurrent, schemas, sort, opts,
                 rpc_calls, stdout, freeze_started, next_chunk, chunk_failed,
                 files_written>>

\* parse_opts: fs::create_dir_all(&output_dir) succeeds or fails
CreateOutputDir ==
  /\ pc = "create_dir"
  /\ \E ok \in BOOLEAN :
       IF ok
       THEN /\ output_dir_created' = TRUE
            /\ pc' = "concurrency"
            /\ UNCHANGED panic_message
       ELSE /\ pc' = "panicked"
            /\ panic_message' = "Error creating directory"
            /\ UNCHANGED output_dir_created
  /\ UNCHANGED <<args, overflow_checks, chain_id, datatypes, block_chunks, network_name,
                 max_concurrent, schemas, sort, opts, rpc_calls, stdout,
                 freeze_started, next_chunk, chunk_failed, files_written>>

\* parse_opts: let (max_concurrent_chunks, max_concurrent_blocks) = parse_concurrency_args(&args)
ParseConcurrency ==
  /\ pc = "concurrency"
  /\ LET r == parse_concurrency_args(args, overflow_checks)
     IN IF r.panic
        THEN /\ pc' = "panicked"
             /\ panic_message' = r.msg
             /\ UNCHANGED max_concurrent
        ELSE /\ pc' = "schemas"
             /\ max_concurrent' = r.val
             /\ UNCHANGED panic_message
  /\ UNCHANGED <<args, overflow_checks, chain_id, datatypes, block_chunks, network_name,
                 output_dir_created, schemas, sort, opts, rpc_calls, stdout,
                 freeze_started, next_chunk, chunk_failed, files_written>>

\* parse_opts: the schemas map
BuildSchemas ==
  /\ pc = "schemas"
  /\ LET r == build_schemas(datatypes, binary_column_format_of(args.hex),
                            args.include_columns, args.exclude_columns)
     IN IF r.panic
        THEN /\ pc' = "panicked"
             /\ panic_message' = r.msg
             /\ UNCHANGED schemas
        ELSE /\ pc' = "sort"
             /\ schemas' = r.val
             /\ UNCHANGED panic_message
  /\ UNCHANGED <<args, overflow_checks, chain_id, datatypes, block_chunks, network_name,
                 output_dir_created, max_concurrent, sort, opts, rpc_calls,
                 stdout, freeze_started, next_chunk, chunk_failed, files_written>>

\* parse_opts: let sort = parse_sort(&args.sort, &schemas)
ParseSort ==
  /\ pc = "sort"
  /\ LET r == parse_sort(args.sort, schemas)
     IN IF r.panic
        THEN /\ pc' = "panicked"
             /\ panic_message' = r.msg
             /\ UNCHANGED sort
        ELSE /\ pc' = "compile"
             /\ sort' = r.val
             /\ UNCHANGED panic_message
  /\ UNCHANGED <<args, overflow_checks, chain_id, datatypes, block_chunks, network_name,
                 output_dir_created, max_concurrent, schemas, opts, rpc_calls,
                 stdout, freeze_started, next_chunk, chunk_failed, files_written>>

\* parse_opts: the FreezeOpts literal, returned to main
CompileOpts ==
  /\ pc = "compile"
  /\ opts' = Some([datatypes |-> datatypes,
                   provider |-> args.rpc,
                   block_chunks |-> block_chunks,
                   output_dir |-> args.output_dir,
                   output_format |-> output_format_of(args.csv),
                   binary_column_format |-> binary_column_format_of(args.hex),
                   network_name |-> network_name,
                   max_concurrent_chunks |-> max_concurrent[1],
                   max_concurrent_blocks |-> max_concurrent[2],
                   log_request_size |-> args.log_request_size,
                   dry_run |-> args.dry,
                   schemas |-> schemas,
                   sort |-> sort,
                   row_groups |-> args.row_groups,
                   row_group_size |-> args.row_group_size,
                   parquet_statistics |-> ~args.no_stats])
  /\ pc' = "print_summary"
  /\ UNCHANGED <<args, overflow_checks, chain_id, datatypes, block_chunks, network_name,
                 output_dir_created, max_concurrent, schemas, sort, rpc_calls,
                 stdout, freeze_started, next_chunk, chunk_failed, files_written,
                 panic_message>>

\* main: print_cryo_summary; print_schemas unwraps opts.sort.get(name) for
\* every schema
PrintSummary ==
  /\ pc = "print_summary"
  /\ IF DOMAIN opts.val.schemas \subseteq DOMAIN opts.val.sort
     THEN /\ stdout' = Append(stdout, "cryo parameters")
          /\ pc' = "main_branch"
          /\ UNCHANGED panic_message
     ELSE /\ pc' = "panicked"
          /\ panic_message' = "called Option::unwrap() on a None value"
          /\ UNCHANGED stdout
  /\ UNCHANGED <<args, overflow_checks, chain_id, datatypes, block_chunks, network_name,
                 output_dir_created, max_concurrent, schemas, sort, opts,
                 rpc_calls, freeze_started, next_chunk, chunk_failed,
                 files_written>>

\* main's dry-run branch falling through into freeze
DryRunExit_FallsThrough ==
  /\ pc = "main_branch"
  /\ opts.val.dry_run
  /\ stdout' = Append(stdout, "[dry run, exiting]")
  /\ freeze_started' = TRUE
  /\ pc' = "freeze"
  /\ UNCHANGED <<args, overflow_checks, chain_id, datatypes, block_chunks,
                 network_name, output_dir_created, max_concurrent, schemas, sort,
                 opts, rpc_calls, next_chunk, chunk_failed, files_written,
                 panic_message>>

\* main: if opts.dry_run { println!("[dry run, exiting]") } ... Ok(())
DryRunExit ==
  /\ pc = "main_branch"
  /\ opts.val.dry_run
  /\ stdout' = Append(stdout, "[dry run, exiting]")
  /\ pc' = "exit_ok"
  /\ UNCHANGED <<args, overflow_checks, chain_id, datatypes, block_chunks, network_name,
                 output_dir_created, max_concurrent, schemas, sort, opts,
                 rpc_calls, freeze_started, next_chunk, chunk_failed,
                 files_written, panic_message>>

\* main: else { println!("collecting data..."); freeze::freeze(opts).await
StartFreeze ==
  /\ pc = "main_branch"
  /\ ~opts.val.dry_run
  /\ stdout' = Append(stdout, "collecting data...")
  /\ freeze_started' = TRUE
  /\ pc' = "freeze"
  /\ UNCHANGED <<args, overflow_checks, chain_id, datatypes, block_chunks, network_name,
                 output_dir_created, max_concurrent, schemas, sort, opts,
                 rpc_calls, next_chunk, chunk_failed, files_written,
                 panic_message>>

\* freeze: one chunk runs: its gatherers call the RPC gateway, and the chunk's
\* files are written whole or, on an error, not at all
FreezeChunk ==
  /\ pc = "freeze"
  /\ next_chunk <= Len(opts.val.block_chunks)
  /\ rpc_calls' = rpc_calls \o
       [i \in 1..Len(opts.val.datatypes) |-> rpc_method(opts.val.datatypes[i])]
  /\ \E ok \in BOOLEAN :
       IF ok
       THEN /\ files_written' = files_written \cup
                 {<<d, opts.val.block_chunks[next_chunk]>> : d \in Range(opts.val.datatypes)}
            /\ UNCHANGED chunk_failed
       ELSE /\ chunk_failed' = TRUE
            /\ UNCHANGED files_written
  /\ next_chunk' = next_chunk + 1
  /\ UNCHANGED <<args, overflow_checks, chain_id, pc, datatypes, block_chunks,
                 network_name, output_dir_created, max_concurrent, schemas, sort,
                 opts, stdout, freeze_started, panic_message>>

\* main: freeze(..).await? returns; println!("...done"); Ok(()) or the error
FreezeReturn ==
  /\ pc = "freeze"
  /\ next_chunk > Len(opts.val.block_chunks)
  /\ IF chunk_failed
     THEN pc' = "exit_err" /\ UNCHANGED stdout
     ELSE pc' = "exit_ok" /\ stdout' = Append(stdout, "...done")
  /\ UNCHANGED <<args, overflow_checks, chain_id, datatypes, block_chunks, network_name,
                 output_dir_created, max_concurrent, schemas, sort, opts,
                 rpc_calls, freeze_started, next_chunk, chunk_failed,
                 files_written, panic_message>>

Next ==
  \/ ParseDatatypes
  \/ ParseBlocks
  \/ MakeProvider
  \/ NetworkName
  \/ ChainIdResponse
  \/ CreateOutputDir
  \/ ParseConcurrency
  \/ BuildSchemas
  \/ ParseSort
  \/ CompileOpts
  \/ PrintSummary
  \/ DryRunExit
  \/ StartFreeze
  \/ FreezeChunk
  \/ FreezeReturn

Spec == Init /\ [][Next]_vars

\* ----------------------------------------------------------------- claims
R_opt == args.max_concurrent_requests
C_opt == args.max_concurrent_chunks
B_opt == args.max_concurrent_blocks

\* parse_concurrency_args has returned a pair: parse_opts is past line 189
ConcurrencyReturned ==
  \/ pc \in {"schemas", "sort", "compile", "print_summary", "main_branch",
             "freeze", "exit_ok", "exit_err"}
  \/ /\ pc = "panicked"
     /\ panic_message \in {"schema error",
                           "custom sort not supported for multiple schemas",
                           "called Option::unwrap() on a None value"}

\* parse_concurrency_args has panicked
ConcurrencyPanicked ==
  /\ pc = "panicked"
  /\ panic_message \in
       {"attempt to divide by zero", "attempt to multiply with overflow",
        "max_concurrent_requests should equal max_concurrent_chunks * max_concurrent_blocks"}

\* the network name has been resolved: parse_opts is past line 169
NetworkNameResolved ==
  \/ pc \in {"create_dir", "concurrency", "schemas", "sort", "compile",
             "print_summary", "main_branch", "freeze", "exit_ok", "exit_err"}
  \/ /\ pc = "panicked"
     /\ panic_message \notin {"invalid datatype", "invalid block range",
                              "chunk size must be positive", "invalid rpc url",
                              "could not determine chain_id"}

\* C1: with R, C and B all supplied, parse_concurrency_args returns (C, B) if
\* and only if R = C*B; for every triple with R # C*B the run ends in a fatal
\* error and freeze is never started.
C1_AllThreeExact ==
  (IsSome(R_opt) /\ IsSome(C_opt) /\ IsSome(B_opt)) =>
    /\ ConcurrencyReturned =>
         /\ R_opt.val = C_opt.val * B_opt.val
         /\ max_concurrent = <<C_opt.val, B_opt.val>>
    /\ ConcurrencyPanicked => R_opt.val # C_opt.val * B_opt.val
    /\ R_opt.val # C_opt.val * B_opt.val =>
         /\ ~freeze_started
         /\ pc \notin {"freeze", "exit_ok", "exit_err"}

\* C2: in every FreezeOpts parse_opts produces, max_concurrent_chunks >= 1 and
\* max_concurrent_blocks >= 1.
C2_ConcurrencyAtLeastOne ==
  IsSome(opts) =>
    /\ opts.val.max_concurrent_chunks >= 1
    /\ opts.val.max_concurrent_blocks >= 1

\* C9: in every FreezeOpts parse_opts produces, log_request_size >= 1, whatever
\* the user passes to --log-request-size.
C9_LogRequestSizeAtLeastOne ==
  IsSome(opts) => opts.val.log_request_size >= 1

OnlyRequests == IsSome(R_opt) /\ ~IsSome(C_opt) /\ ~IsSome(B_opt)

\* C4 as stated: with only R supplied, FreezeOpts holds max_concurrent_chunks = 3
\* and max_concurrent_blocks = max(floor(R/3), 1).
C4_OnlyRequests_AsStated ==
  (OnlyRequests /\ IsSome(opts)) =>
    /\ opts.val.max_concurrent_chunks = 3
    /\ opts.val.max_concurrent_blocks = Max(R_opt.val \div 3, 1)

\* C4 (amended): with only R supplied, FreezeOpts holds max_concurrent_chunks =
\* max(floor(R/3), 1) and max_concurrent_blocks = 3, for every R >= 0.
C4_OnlyRequests ==
  (OnlyRequests /\ IsSome(opts)) =>
    /\ opts.val.max_concurrent_blocks = 3
    /\ opts.val.max_concurrent_chunks >= 1
    /\ 3 * opts.val.max_concurrent_chunks <= Max(R_opt.val, 3)
    /\ R_opt.val < 3 * opts.val.max_concurrent_chunks + 3

C4_Witness ==
  /\ OnlyRequests
  /\ IsSome(opts)
  /\ R_opt.val = U64_MAX
  /\ opts.val.max_concurrent_chunks > 3

NoneSupplied == ~IsSome(R_opt) /\ ~IsSome(C_opt) /\ ~IsSome(B_opt)

\* C5 as stated: with no concurrency option supplied, FreezeOpts holds
\* max_concurrent_chunks = 3 and max_concurrent_blocks = 32.
C5_Default_AsStated ==
  (NoneSupplied /\ IsSome(opts)) =>
    /\ opts.val.max_concurrent_chunks = 3
    /\ opts.val.max_concurrent_blocks = 32

\* C5 (amended): with no concurrency option supplied, FreezeOpts holds
\* max_concurrent_chunks = 32 and max_concurrent_blocks = 3 (ceiling 96).
C5_Default ==
  (NoneSupplied /\ IsSome(opts)) =>
    /\ opts.val.max_concurrent_chunks = 32
    /\ opts.val.max_concurrent_blocks = 3
    /\ opts.val.max_concurrent_chunks * opts.val.max_concurrent_blocks = 96

C5_Witness ==
  /\ NoneSupplied
  /\ IsSome(opts)
  /\ freeze_started

\* the inputs C10 speaks of: R supplied, every supplied option at least 1
C10_Case ==
  /\ IsSome(R_opt) /\ R_opt.val >= 1
  /\ IsSome(C_opt) => C_opt.val >= 1
  /\ IsSome(B_opt) => B_opt.val >= 1
  /\ ConcurrencyReturned

\* C10 as stated: whenever R is supplied and a pair is returned, chunks * blocks
\* never exceeds R.
C10_Ceiling_AsStated ==
  C10_Case => max_concurrent[1] * max_concurrent[2] <= R_opt.val

\* C10 (amended): whenever R is supplied and a pair is returned, chunks * blocks
\* never exceeds max(R, f), f being the factor the arm holds fixed (3 with R
\* alone, C with R and chunks, B with R and blocks); with all three the product
\* as the u64 multiplication computes it equals R.
C10_Ceiling ==
  C10_Case =>
    LET product == max_concurrent[1] * max_concurrent[2]
    IN /\ (~IsSome(C_opt) /\ ~IsSome(B_opt)) => product <= Max(R_opt.val, 3)
       /\ (IsSome(C_opt) /\ ~IsSome(B_opt)) => product <= Max(R_opt.val, C_opt.val)
       /\ (~IsSome(C_opt) /\ IsSome(B_opt)) => product <= Max(R_opt.val, B_opt.val)
       /\ (IsSome(C_opt) /\ IsSome(B_opt)) => product % WordModulus = R_opt.val

C10_Witness ==
  /\ C10_Case
  /\ IsSome(C_opt) /\ ~IsSome(B_opt)
  /\ C_opt.val > 1
  /\ R_opt.val > C_opt.val
  /\ max_concurrent[2] > 1

\* C3: in a dry run the summary is printed and the program then exits
\* successfully without invoking freeze: no chunk runs, no file is written, and
\* the only RPC call of the whole run is one eth_chainId, made only when
\* --network-name is absent.
C3_DryRun ==
  args.dry =>
    /\ ~freeze_started
    /\ pc \notin {"freeze", "exit_err"}
    /\ next_chunk = 1
    /\ files_written = {}
    /\ rpc_calls \in {<<>>, <<"eth_chainId">>}
    /\ IsSome(args.network_name) => rpc_calls = <<>>
    /\ pc = "main_branch" => stdout = <<"cryo parameters">>
    /\ pc = "exit_ok" => stdout = <<"cryo parameters", "[dry run, exiting]">>
    /\ pc = "panicked" => stdout = <<>>

C3_Witness ==
  /\ args.dry
  /\ pc = "exit_ok"
  /\ rpc_calls = <<"eth_chainId">>
  /\ Len(block_chunks) > 1

ValidTokens == {"blocks", "logs", "events", "transactions", "txs"}

\* C6: the datatype tokens are resolved token by token (blocks -> Blocks, logs
\* and events -> Logs, transactions and txs -> Transactions); any other token
\* is a fatal error raised before any RPC call, before the output directory is
\* created and before any chunk runs.
C6_DatatypeTokens ==
  pc # "parse_datatypes" =>
    IF Range(args.datatype) \subseteq ValidTokens
    THEN /\ ~(pc = "panicked" /\ panic_message = "invalid datatype")
         /\ Len(datatypes) = Len(args.datatype)
         /\ \A i \in 1..Len(args.datatype) :
              /\ args.datatype[i] = "blocks" => datatypes[i] = "Blocks"
              /\ args.datatype[i] \in {"logs", "events"} => datatypes[i] = "Logs"
              /\ args.datatype[i] \in {"transactions", "txs"} =>
                   datatypes[i] = "Transactions"
         /\ IsSome(opts) => opts.val.datatypes = datatypes
    ELSE /\ pc = "panicked"
         /\ panic_message = "invalid datatype"
         /\ rpc_calls = <<>>
         /\ ~output_dir_created
         /\ ~freeze_started
         /\ next_chunk = 1
         /\ files_written = {}
         /\ opts = None

C6_Witness ==
  /\ pc = "panicked"
  /\ panic_message = "invalid datatype"
  /\ Len(args.datatype) = 2
  /\ args.datatype[1] = "events"
  /\ args.datatype[2] \notin ValidTokens

\* the number a string of decimal digits denotes
DigitValue(c) == CHOOSE d \in 0..9 : Digits[d + 1] = c
RECURSIVE DecimalValue(_)
DecimalValue(str) ==
  IF str = <<>> THEN 0
  ELSE 10 * DecimalValue(SubSeq(str, 1, Len(str) - 1)) + DigitValue(str[Len(str)])
IsDecimal(str) ==
  /\ Len(str) >= 1
  /\ \A i \in 1..Len(str) : str[i] \in Range(Digits)
  /\ Len(str) > 1 => str[1] # "0"

\* C7: a supplied --network-name is used verbatim and no eth_chainId call is
\* made; when it is absent exactly one eth_chainId call is awaited during
\* startup, chain id 1 gives "ethereum" and every other chain id n gives
\* "network_<n>"; this call is the only RPC issued before ingestion starts.
C7_NetworkName ==
  /\ ~freeze_started => rpc_calls \in {<<>>, <<"eth_chainId">>}
  /\ Cardinality({i \in 1..Len(rpc_calls) : rpc_calls[i] = "eth_chainId"}) <= 1
  /\ IsSome(opts) => opts.val.network_name = network_name
  /\ IsSome(args.network_name) =>
       /\ chain_id = None
       /\ \A i \in 1..Len(rpc_calls) : rpc_calls[i] # "eth_chainId"
       /\ NetworkNameResolved => network_name = args.network_name.val
  /\ (~IsSome(args.network_name) /\ NetworkNameResolved) =>
       /\ IsSome(chain_id)
       /\ rpc_calls # <<>>
       /\ rpc_calls[1] = "eth_chainId"
       /\ chain_id.val = 1 =>
            network_name = <<"e", "t", "h", "e", "r", "e", "u", "m">>
       /\ chain_id.val # 1 =>
            /\ Len(network_name) > 8
            /\ SubSeq(network_name, 1, 8) = <<"n", "e", "t", "w", "o", "r", "k", "_">>
            /\ IsDecimal(SubSeq(network_name, 9, Len(network_name)))
            /\ DecimalValue(SubSeq(network_name, 9, Len(network_name))) = chain_id.val

C7_Witness ==
  /\ ~IsSome(args.network_name)
  /\ IsSome(opts)
  /\ chain_id = Some(10)
  /\ opts.val.network_name = <<"n", "e", "t", "w", "o", "r", "k", "_", "1", "0">>
  /\ rpc_calls = <<"eth_chainId">>

\* C8: in every FreezeOpts parse_opts produces, every datatype has an entry in
\* schemas and in sort, and every column of a datatype's sort list (default or
\* given with --sort) exists in that datatype's effective schema; an unknown
\* sort column is a fatal error at startup.
C8_SortColumnsInSchema ==
  IsSome(opts) =>
    \A d \in Range(opts.val.datatypes) :
      /\ d \in DOMAIN opts.val.schemas
      /\ d \in DOMAIN opts.val.sort
      /\ Range(opts.val.sort[d]) \subseteq column_names(opts.val.schemas[d])

====
